---------------------------- MODULE Spec2Model ----------------------------
(***************************************************************************)
(* Model of the clustering core of the antibiotic prescribing pipeline:    *)
(* step 3 (prepare_features, compute_gower_and_cluster,                    *)
(* plot_silhouette_scores, apply_best_k) and step 5 (bootstrap_validation).*)
(*                                                                         *)
(* Conventions.                                                            *)
(*  - Records, rows and columns are numbered 1..n here (0..n-1 in the      *)
(*    Python code); cluster labels are 0..k-1 as in the code.              *)
(*  - A StandardScaler column is held as its centred values n*x - sum(x).  *)
(*    The true scaled value is this number divided by n*std > 0; the Gower *)
(*    distance only uses ratios of values of one column, in which the      *)
(*    positive factor cancels.                                             *)
(*  - A distance is held as the integer d * DistDen(p), exact because every*)
(*    per-column dissimilarity is a multiple of 1/Lcm.  float32 rounding   *)
(*    of the gower package is not modelled.                                *)
(*  - A score (silhouette, adjusted Rand index) is an exact fraction       *)
(*    <<num, den>> in lowest terms with den > 0; <<1, 0>> and <<-1, 0>>    *)
(*    stand for the huge finite values numpy.nan_to_num puts for +inf/-inf.*)
(***************************************************************************)
EXTENDS Integers, Sequences, FiniteSets, TLC

\* ------------------------------------------------------------------ bounds
\* Largest number of encounters in the input table.
MaxN == 4
\* Raw continuous values are drawn from 0..MaxVal.
MaxVal == 3
\* k_range of the scan is KMin..KMax (config.K_RANGE is range(3, 9)).
KMin == 2
KMax == 3
\* n_iter of bootstrap_validation (config.BOOTSTRAP_ITERATIONS is 20).
NIter == 2
\* The command line names at most MaxArgs steps, each a number of 0..MaxStep.
MaxArgs == 3
\* Largest number of encounters of a table with a categorical feature.
MaxEncRows == 3
MaxStep == 7

\* ------------------------------------------------------- program constants
\* BOOTSTRAP_SAMPLE_FRACTION = 0.80 is SampleNum / SampleDen.
SampleNum == 4
SampleDen == 5
\* main: steps = [1, 2, 3, 4, 5, 6] when none is named.
LastStep == 6

\* ---------------------------------------------------------------- numbers
Abs(x) == IF x < 0 THEN -x ELSE x

Sgn(x) == IF x > 0 THEN 1 ELSE IF x < 0 THEN -1 ELSE 0

RECURSIVE Gcd(_, _)
Gcd(a, b) == IF b = 0 THEN a ELSE Gcd(b, a % b)

RECURSIVE LcmUpTo(_)
LcmUpTo(m) == IF m <= 1 THEN 1
              ELSE LET l == LcmUpTo(m - 1) IN (l * m) \div Gcd(l, m)

\* Every per-column dissimilarity is a multiple of 1/Lcm.
Lcm == LcmUpTo(MaxVal)

SetMax(S) == CHOOSE x \in S : \A y \in S : y <= x

SetMin(S) == CHOOSE x \in S : \A y \in S : x <= y

RECURSIVE SumSeq(_)
SumSeq(s) == IF s = <<>> THEN 0 ELSE Head(s) + SumSeq(Tail(s))

Range(s) == {s[i] : i \in DOMAIN s}

\* The elements of a set of integers as an ascending sequence.
RECURSIVE SortedSeq(_)
SortedSeq(S) == IF S = {} THEN <<>>
                ELSE LET m == SetMin(S) IN <<m>> \o SortedSeq(S \ {m})

\* numpy.argmin / argmax over a non-empty sequence of integers: the first
\* position holding the extreme value.
ArgMin(s) == SetMin({i \in DOMAIN s : \A j \in DOMAIN s : s[i] <= s[j]})

ArgMax(s) == SetMin({i \in DOMAIN s : \A j \in DOMAIN s : s[j] <= s[i]})

\* -------------------------------------------------------------- fractions
RNorm(q) ==
    IF q[2] = 0 THEN <<Sgn(q[1]), 0>>
    ELSE LET s == IF q[2] < 0 THEN -1 ELSE 1
             g == Gcd(Abs(q[1]), Abs(q[2]))
         IN  <<(s * q[1]) \div g, (s * q[2]) \div g>>

\* a < b for fractions; <<1, 0>> is above and <<-1, 0>> below every finite one.
RLess(a, b) ==
    IF a[2] = 0 \/ b[2] = 0
    THEN LET va == IF a[2] = 0 THEN a[1] ELSE 0
             vb == IF b[2] = 0 THEN b[1] ELSE 0
         IN  va < vb
    ELSE a[1] * b[2] < b[1] * a[2]

RAdd(a, b) ==
    IF a[2] = 0 \/ b[2] = 0
    THEN LET ia == IF a[2] = 0 THEN a[1] ELSE 0
             ib == IF b[2] = 0 THEN b[1] ELSE 0
         IN  IF ia + ib # 0 THEN <<Sgn(ia + ib), 0>>
             ELSE IF a[2] = 0 /\ b[2] = 0 THEN <<0, 1>>
             ELSE IF a[2] = 0 THEN b ELSE a
    ELSE RNorm(<<a[1] * b[2] + b[1] * a[2], a[2] * b[2]>>)

RECURSIVE RSum(_)
RSum(s) == IF s = <<>> THEN <<0, 1>> ELSE RAdd(Head(s), RSum(Tail(s)))

\* ----------------------------------------------------------- feature table
\* One feature of each kind stands for the lists of step 3.
NUMERICAL_FEATURES == <<"PatientWeight">>

BINARY_FEATURES == <<"has_antibiotic">>

\* The encounter tables the model starts from: n records in ascending order
\* of (PatientWeight, has_antibiotic).
Encounter == [PatientWeight : 0..MaxVal, has_antibiotic : 0..1]

EncKey(r) == 2 * r.PatientWeight + r.has_antibiotic

Tables(n) == {t \in [1..n -> Encounter] :
                 \A i \in 1..(n - 1) : EncKey(t[i]) <= EncKey(t[i + 1])}

\* StandardScaler.fit_transform of one column, as centred values.
Scaled(col) == [i \in DOMAIN col |-> Len(col) * col[i] - SumSeq(col)]

\* A text is held as what stands before its ending and the ending, "_scaled"
\* or "": the only question the code asks of a text is endswith("_scaled").
\* The values of a categorical feature, in the sorted order of get_dummies,
\* and the missing value.
CategoryValues == <<[stem |-> "ER", suffix |-> ""],
                    [stem |-> "OPD", suffix |-> ""],
                    [stem |-> "up", suffix |-> "_scaled"]>>

NaN == [stem |-> "nan", suffix |-> ""]

\* The categorical features of a table: Spec follows tables without one.
CATEGORICAL_FEATURES(t) ==
    IF t # <<>> /\ "VisitType" \in DOMAIN t[1] THEN <<"VisitType">> ELSE <<>>

\* pd.get_dummies(df[CATEGORICAL_FEATURES], drop_first=False): one 0/1 column
\* <feature>_<value> per value observed in the column, in sorted order; a
\* missing value is no value (dummy_na is left False).
GetDummies(t) ==
    LET observed(f) == SelectSeq(CategoryValues,
                                 LAMBDA v : \E i \in DOMAIN t : t[i][f] = v)
        RECURSIVE cols(_)
        cols(fs) == IF fs = <<>> THEN <<>>
                    ELSE [a \in DOMAIN observed(Head(fs)) |->
                            [name |-> Head(fs), value |-> observed(Head(fs))[a]]]
                         \o cols(Tail(fs))
    IN  cols(CATEGORICAL_FEATURES(t))

\* prepare_features: scaled numerical columns (named <feature>_scaled), then
\* the binary columns as they are, then the indicator columns.  kind tells
\* which of the three blocks made the column.
PrepareFeatures(t) ==
    LET num(f) == Scaled([i \in DOMAIN t |-> t[i][f]])
        nn == Len(NUMERICAL_FEATURES)
        nb == Len(BINARY_FEATURES)
        cat_df == GetDummies(t)
    IN  [columns |-> [c \in 1..(nn + nb + Len(cat_df)) |->
                        IF c <= nn
                        THEN [name |-> NUMERICAL_FEATURES[c], suffix |-> "_scaled",
                              kind |-> "numerical"]
                        ELSE IF c <= nn + nb
                        THEN [name |-> BINARY_FEATURES[c - nn], suffix |-> "",
                              kind |-> "binary"]
                        ELSE [name |-> cat_df[c - nn - nb].name,
                              value |-> cat_df[c - nn - nb].value.stem,
                              suffix |-> cat_df[c - nn - nb].value.suffix,
                              kind |-> "categorical"]],
         values  |-> [i \in DOMAIN t |->
                        [c \in 1..(nn + nb + Len(cat_df)) |->
                           IF c <= nn THEN num(NUMERICAL_FEATURES[c])[i]
                           ELSE IF c <= nn + nb THEN t[i][BINARY_FEATURES[c - nn]]
                           ELSE IF t[i][cat_df[c - nn - nb].name]
                                     = cat_df[c - nn - nb].value
                                THEN 1 ELSE 0]]]

\* feature_matrix.iloc[idx].reset_index(drop=True)
ILoc(fm, idx) == [columns |-> fm.columns,
                  values  |-> [a \in DOMAIN idx |-> fm.values[idx[a]]]]

\* cat_mask = [not col.endswith("_scaled") for col in feature_matrix.columns]
CatMask(fm) == [c \in DOMAIN fm.columns |-> fm.columns[c].suffix # "_scaled"]

\* ---------------------------------------------------------- Gower distance
\* The common denominator of the distances over p columns.
DistDen(p) == Lcm * p

\* GowerNum with the range taken as 1 - min/max, without the absolute value.
GowerNumSignedRange(col, mx, mn, i, j) ==
    IF mx = 0 \/ mx = mn THEN 0
    ELSE (Lcm * Abs(col[i] - col[j]) * Sgn(mx)) \div (mx - mn)

\* GowerNum with a column of range 0 contributing 1 in the place of 0.
GowerNumUnitOnZeroRange(col, mx, mn, i, j) ==
    IF mx = 0 \/ mx = mn THEN Lcm
    ELSE (Lcm * Abs(col[i] - col[j])) \div Abs(mx - mn)

\* gower.gower_matrix on one numerical column: the values are divided by the
\* column maximum (left 0 when the maximum is 0), the range is |1 - min/max|
\* (0 when the maximum is 0), and the dissimilarity is |delta| / range where
\* the range is not 0, else 0.  In the centred values that is
\* |col[i] - col[j]| / |max - min|.  Times Lcm.
GowerNum(col, mx, mn, i, j) ==
    IF mx = 0 \/ mx = mn THEN 0
    ELSE (Lcm * Abs(col[i] - col[j])) \div Abs(mx - mn)

\* gower.gower_matrix on one categorical column: simple mismatch.  Times Lcm.
GowerCat(col, i, j) == IF col[i] = col[j] THEN 0 ELSE Lcm

\* gower.gower_matrix(fm, cat_features=cat_mask): the unweighted mean of the
\* per-column dissimilarities, as numerators over DistDen(p).
GowerMatrix(fm, cat_mask) ==
    LET rows == Len(fm.values)
        column == [c \in DOMAIN fm.columns |-> [i \in 1..rows |-> fm.values[i][c]]]
        num_max == [c \in DOMAIN fm.columns |-> SetMax(Range(column[c]))]
        num_min == [c \in DOMAIN fm.columns |-> SetMin(Range(column[c]))]
    IN  [i \in 1..rows |-> [j \in 1..rows |->
            SumSeq([c \in DOMAIN fm.columns |->
                      IF cat_mask[c] THEN GowerCat(column[c], i, j)
                      ELSE GowerNum(column[c], num_max[c], num_min[c], i, j)])]]

\* ------------------------------------------------------------------ KMedoids
\* max_iter of both KMedoids constructions.
MAX_ITER == 300

\* random_state of the KMedoids constructions of the scan.
RANDOM_STATE == 42

\* The draws a seeded RandomState hands to k-medoids++ for n points and k
\* medoids: draw 1 is randint(n), draw c > 1 decides which of the at most
\* n - c + 1 points still away from every medoid is taken.
Draws(n, k) == {r \in [1..k -> 0..(n - 1)] : \A c \in 2..k : r[c] <= n - c}

\* KMedoids._kpp_init.  The first medoid is randint(n).  Each further one is the
\* best of the local trials, each trial drawn with probability proportional to
\* the squared distance to the closest medoid so far: a point whose closest
\* squared distance is positive, whichever the draw selects; when the
\* potential is 0 every trial is searchsorted(..., 0) = the first point.
RECURSIVE KppNext(_, _, _, _, _)
KppNext(D, k, r, centers, closest) ==
    IF Len(centers) = k THEN centers
    ELSE LET n    == Len(D)
             pot  == SumSeq(closest)
             elig == SortedSeq({j \in 1..n : closest[j] > 0})
             best == IF pot = 0 THEN 1
                     ELSE elig[(r[Len(centers) + 1] % Len(elig)) + 1]
         IN  KppNext(D, k, r, Append(centers, best),
                     [j \in 1..n |->
                        IF D[best][j] * D[best][j] < closest[j]
                        THEN D[best][j] * D[best][j] ELSE closest[j]])

KppInit(D, k, r) ==
    LET first == r[1] + 1
    IN  KppNext(D, k, r, <<first>>, [j \in 1..Len(D) |-> D[first][j] * D[first][j]])

\* AssignLabels numbering the clusters 1..k.
AssignLabelsFromOne(D, medoid_idxs) ==
    [j \in 1..Len(D) |-> ArgMin([c \in DOMAIN medoid_idxs |-> D[medoid_idxs[c]][j]])]

\* labels = np.argmin(D[medoid_idxs, :], axis=0)
AssignLabels(D, medoid_idxs) ==
    [j \in 1..Len(D) |-> ArgMin([c \in DOMAIN medoid_idxs |-> D[medoid_idxs[c]][j]]) - 1]

\* KMedoids._update_medoid_idxs_in_place for one cluster c (label c - 1): an
\* empty cluster keeps its medoid; otherwise the member with the least sum of
\* in-cluster distances replaces the medoid when its cost is strictly less
\* than the current cost, read at np.argmax(cluster_k_idxs == medoid), which
\* is the first member when the medoid is not in its own cluster.
UpdateMedoid(D, labels, medoid_idxs, c) ==
    LET cluster_k_idxs == SortedSeq({j \in 1..Len(D) : labels[j] = c - 1})
        costs == [a \in DOMAIN cluster_k_idxs |->
                    SumSeq([b \in DOMAIN cluster_k_idxs |->
                              D[cluster_k_idxs[a]][cluster_k_idxs[b]]])]
        at == {a \in DOMAIN cluster_k_idxs : cluster_k_idxs[a] = medoid_idxs[c]}
        curr_cost == costs[IF at = {} THEN 1 ELSE SetMin(at)]
        min_cost_idx == ArgMin(costs)
    IN  IF cluster_k_idxs = <<>> THEN medoid_idxs[c]
        ELSE IF costs[min_cost_idx] < curr_cost THEN cluster_k_idxs[min_cost_idx]
        ELSE medoid_idxs[c]

UpdateMedoids(D, labels, medoid_idxs) ==
    [c \in DOMAIN medoid_idxs |-> UpdateMedoid(D, labels, medoid_idxs, c)]

\* The loop of KMedoids.fit (method "alternate"): assign, update, until no
\* medoid changes or max_iter rounds were made.  Gives the final medoids and
\* the number of rounds made.
RECURSIVE AlternateLoop(_, _, _)
AlternateLoop(D, medoid_idxs, n_iter) ==
    IF n_iter = MAX_ITER THEN [medoid_idxs |-> medoid_idxs, n_iter |-> n_iter]
    ELSE LET new == UpdateMedoids(D, AssignLabels(D, medoid_idxs), medoid_idxs)
         IN  IF new = medoid_idxs
             THEN [medoid_idxs |-> medoid_idxs, n_iter |-> n_iter + 1]
             ELSE AlternateLoop(D, new, n_iter + 1)

\* KMedoids(n_clusters=k, metric="precomputed", init="k-medoids++",
\* random_state=seed).fit_predict(D) for k <= n, the seed's draws being r.
FitPredict(D, k, r) == AssignLabels(D, AlternateLoop(D, KppInit(D, k, r), 0).medoid_idxs)

\* The labellings fit_predict can give over the draws of its seed.
FitOutcomes(D, k) == {FitPredict(D, k, r) : r \in Draws(Len(D), k)}

\* The number of labels that are assigned to at least one point.
NUnique(labels) == Cardinality(Range(labels))

\* ---------------------------------------------------------------- silhouette
\* sklearn check_number_of_labels: 1 < n_labels < n_samples, else ValueError.
SilhouetteDefined(labels) ==
    1 < NUnique(labels) /\ NUnique(labels) < Len(labels)

\* silhouette_samples for point i on a precomputed matrix: a is the sum of the
\* distances to the own cluster over (size - 1), b the least mean distance to
\* another cluster, the value (b - a) / max(a, b); a point alone in its cluster
\* has a = 0/0 and the value nan, which nan_to_num turns into 0.
SilhouetteSample(D, labels, i) ==
    LET used  == Range(labels)
        size  == [l \in used |-> Cardinality({j \in DOMAIN labels : labels[j] = l})]
        total == [l \in used |->
                    SumSeq([j \in DOMAIN labels |-> IF labels[j] = l THEN D[i][j] ELSE 0])]
        mean  == [l \in used \ {labels[i]} |-> RNorm(<<total[l], size[l]>>)]
        a == RNorm(<<total[labels[i]], size[labels[i]] - 1>>)
        b == mean[CHOOSE l \in DOMAIN mean : \A o \in DOMAIN mean : ~RLess(mean[o], mean[l])]
        diff == RAdd(b, <<-a[1], a[2]>>)
        mx == IF RLess(a, b) THEN b ELSE a
    IN  IF size[labels[i]] = 1 THEN <<0, 1>>
        ELSE IF mx[1] = 0 THEN (IF diff[1] = 0 THEN <<0, 1>> ELSE <<Sgn(diff[1]), 0>>)
        ELSE RNorm(<<diff[1] * mx[2], diff[2] * mx[1]>>)

\* silhouette_score(D, labels, metric="precomputed"): the mean of the samples.
SilhouetteScore(D, labels) ==
    LET total == RSum([i \in 1..Len(D) |-> SilhouetteSample(D, labels, i)])
    IN  IF total[2] = 0 THEN total ELSE RNorm(<<total[1], total[2] * Len(D)>>)

\* ------------------------------------------------------- adjusted Rand index
\* sklearn adjusted_rand_score through the pair confusion matrix: 1 when no
\* pair is split by one labelling and joined by the other, else
\* 2 (tp tn - fn fp) / ((tp + fn)(fn + tn) + (tp + fp)(fp + tn)).
\* AdjustedRandScore without the early return of 1.0 when fn = fp = 0.
AdjustedRandScoreNoShortcut(labels_true, labels_pred) ==
    LET pairs == {p \in (DOMAIN labels_true) \X (DOMAIN labels_true) : p[1] # p[2]}
        cnt(st, sp) == Cardinality({p \in pairs :
                          /\ (labels_true[p[1]] = labels_true[p[2]]) = st
                          /\ (labels_pred[p[1]] = labels_pred[p[2]]) = sp})
        tp == cnt(TRUE, TRUE)
        tn == cnt(FALSE, FALSE)
        fp == cnt(FALSE, TRUE)
        fn == cnt(TRUE, FALSE)
    IN  RNorm(<<2 * (tp * tn - fn * fp),
                (tp + fn) * (fn + tn) + (tp + fp) * (fp + tn)>>)

AdjustedRandScore(labels_true, labels_pred) ==
    LET pairs == {p \in (DOMAIN labels_true) \X (DOMAIN labels_true) : p[1] # p[2]}
        cnt(st, sp) == Cardinality({p \in pairs :
                          /\ (labels_true[p[1]] = labels_true[p[2]]) = st
                          /\ (labels_pred[p[1]] = labels_pred[p[2]]) = sp})
        tp == cnt(TRUE, TRUE)
        tn == cnt(FALSE, FALSE)
        fp == cnt(FALSE, TRUE)
        fn == cnt(TRUE, FALSE)
    IN  IF fn = 0 /\ fp = 0 THEN <<1, 1>>
        ELSE RNorm(<<2 * (tp * tn - fn * fp),
                     (tp + fn) * (fn + tn) + (tp + fp) * (fp + tn)>>)

\* --------------------------------------------------------------------- state
VARIABLES
    argv,              \* main: the step numbers on the command line
    steps,             \* main: the steps to run, <<>> before they are read
    step_at,           \* main: the position of the loop in steps
    run_log,           \* main: what run_step did so far, in order
    data_dir,          \* main.py: the intermediate files of output/data, path -> state
    kmed,              \* a KMedoids fit followed round by round, <<>> when none
    pc,                \* where the run stands
    error,             \* the exception that ended the run, "" while none
    df,                \* the encounter table read from the prescriber file
    feature_matrix,    \* prepare_features(df)
    gower_dist,        \* step 3: the full distance matrix
    k,                 \* step 3: the k the scan loop is at
    results,           \* step 3: k -> [labels, silhouette, model]
    best_k,            \* step 3: the k picked by plot_silhouette_scores
    cluster,           \* the df["cluster"] column, <<>> before it is set
    boot_k,            \* step 5: best_k = df["cluster"].nunique()
    i,                 \* step 5: the bootstrap iteration
    idx_sorted,        \* step 5: the sorted sample of this iteration
    boot_gower_dist,   \* step 5: the distance matrix of the sample
    boot_labels,       \* step 5: the labels of the sample
    coassoc,           \* step 5: pair -> times clustered together
    count_matrix,      \* step 5: pair -> times sampled together
    ari_scores,        \* step 5: one adjusted Rand index per iteration
    sil_scores,        \* step 5: the silhouette scores of the iterations
    cluster_stability, \* step 5: cluster -> stability, <<>> before the end
    rerun              \* a second run on the same files, <<>> when there is none

vars == <<argv, steps, step_at, run_log, data_dir, kmed, pc, error, df, feature_matrix, gower_dist, k, results, best_k, cluster,
          boot_k, i, idx_sorted, boot_gower_dist, boot_labels, coassoc,
          count_matrix, ari_scores, sil_scores, cluster_stability, rerun>>

main_vars == <<argv, steps, step_at, run_log>>

step3_vars == <<gower_dist, k, results, best_k>>

step5_vars == <<boot_k, i, idx_sorted, boot_gower_dist, boot_labels, coassoc,
                count_matrix, ari_scores, sil_scores, cluster_stability>>

n == Len(df)

\* SampleSize with the whole table as the sample.
SampleSizeWholeTable(m) == m

\* sample_size = int(n * sample_frac)
SampleSize(m) == (m * SampleNum) \div SampleDen

Zeros(m) == [a \in 1..m |-> [b \in 1..m |-> 0]]

\* The state before step 3 runs on table t (python main.py 3 5; the runner
\* itself is followed in SpecMain).
Start(t, second) ==
    /\ pc = "start"
    /\ error = ""
    /\ df = t
    /\ feature_matrix = <<>>
    /\ gower_dist = <<>>
    /\ k = 0
    /\ results = <<>>
    /\ best_k = 0
    /\ cluster = <<>>
    /\ boot_k = 0
    /\ i = 0
    /\ idx_sorted = <<>>
    /\ boot_gower_dist = <<>>
    /\ boot_labels = <<>>
    /\ coassoc = <<>>
    /\ count_matrix = <<>>
    /\ ari_scores = <<>>
    /\ sil_scores = <<>>
    /\ cluster_stability = <<>>
    /\ rerun = second
    /\ argv = <<3, 5>>
    /\ data_dir = <<>>
    /\ kmed = <<>>
    /\ steps = <<>>
    /\ step_at = 0
    /\ run_log = <<>>

Init == \E t \in UNION {Tables(m) : m \in 0..MaxN} : Start(t, <<>>)

\* An exception nobody catches ends the run where it stands.
Raise(what) ==
    /\ pc' = "error"
    /\ error' = what

\* -------------------------------------------------------------------- step 3
\* run: read the table and prepare_features.  StandardScaler refuses a table
\* with no row.
Step3Prepare ==
    /\ pc = "start"
    /\ IF n = 0
       THEN /\ Raise("ValueError: StandardScaler: 0 samples")
            /\ UNCHANGED feature_matrix
       ELSE /\ feature_matrix' = PrepareFeatures(df)
            /\ pc' = "prepared"
            /\ UNCHANGED error
    /\ UNCHANGED <<main_vars, data_dir, kmed, df, cluster, step3_vars, step5_vars, rerun>>

\* compute_gower_and_cluster up to the loop: the distance matrix.
ComputeGowerFrom(first) ==
    /\ pc = "prepared"
    /\ gower_dist' = GowerMatrix(feature_matrix, CatMask(feature_matrix))
    /\ k' = first
    /\ pc' = "scan"
    /\ UNCHANGED <<error, main_vars, data_dir, kmed, df, feature_matrix, results, best_k, cluster,
                   step5_vars>>

ComputeGower == ComputeGowerFrom(KMin) /\ UNCHANGED rerun

\* One round of the loop over k_range: KMedoids refuses k > n, silhouette_score
\* refuses a labelling with 1 or with n populated labels; neither is caught.
ScanTrial ==
    /\ pc = "scan"
    /\ IF k > n
       THEN /\ Raise("ValueError: KMedoids: more medoids than samples")
            /\ UNCHANGED <<k, results>>
       ELSE \E labels \in FitOutcomes(gower_dist, k) :
                  IF ~SilhouetteDefined(labels)
                  THEN /\ Raise("ValueError: silhouette_score: number of labels")
                       /\ UNCHANGED <<k, results>>
                  ELSE /\ results' = results @@
                              (k :> [labels |-> labels,
                                     silhouette |-> SilhouetteScore(gower_dist, labels),
                                     model |-> [n_clusters |-> k,
                                                random_state |-> RANDOM_STATE]])
                       /\ k' = k + 1
                       /\ pc' = IF k = KMax THEN "scanned" ELSE "scan"
                       /\ UNCHANGED error
    /\ UNCHANGED <<main_vars, data_dir, kmed, df, feature_matrix, gower_dist, best_k, cluster, step5_vars>>

ScanK == ScanTrial /\ UNCHANGED rerun

\* BestK with np.argmin in the place of np.argmax.
BestKArgMin(res) ==
    LET ks == SortedSeq(DOMAIN res)
        best == CHOOSE a \in DOMAIN ks :
                  /\ \A b \in DOMAIN ks :
                        ~RLess(res[ks[b]].silhouette, res[ks[a]].silhouette)
                  /\ \A b \in 1..(a - 1) :
                        RLess(res[ks[a]].silhouette, res[ks[b]].silhouette)
    IN  ks[best]

\* BestKOfKeys with ks = list(results.keys()) in the place of
\* ks = sorted(results.keys()).
BestKOfKeysUnsorted(keys, res) ==
    LET ks == keys
        best == CHOOSE a \in DOMAIN ks :
                  /\ \A b \in DOMAIN ks :
                        ~RLess(res[ks[a]].silhouette, res[ks[b]].silhouette)
                  /\ \A b \in 1..(a - 1) :
                        RLess(res[ks[b]].silhouette, res[ks[a]].silhouette)
    IN  ks[best]

\* plot_silhouette_scores on a dict whose keys were inserted in the order keys:
\* ks = sorted(results.keys()), best_k = ks[np.argmax(sils)], the first
\* position of the greatest score.
BestKOfKeys(keys, res) ==
    LET ks == SortedSeq(Range(keys))
        best == CHOOSE a \in DOMAIN ks :
                  /\ \A b \in DOMAIN ks :
                        ~RLess(res[ks[a]].silhouette, res[ks[b]].silhouette)
                  /\ \A b \in 1..(a - 1) :
                        RLess(res[ks[b]].silhouette, res[ks[a]].silhouette)
    IN  ks[best]

\* plot_silhouette_scores on the table of the scan, whose loop inserts the keys
\* in ascending order.
BestK(res) == BestKOfKeys(SortedSeq(DOMAIN res), res)

PlotSilhouetteScores ==
    /\ pc = "scanned"
    /\ best_k' = BestK(results)
    /\ pc' = "selected"
    /\ UNCHANGED <<error, main_vars, data_dir, kmed, df, feature_matrix, gower_dist, k, results, cluster,
                   step5_vars, rerun>>

\* apply_best_k: df["cluster"] = results[best_k]["labels"]
ApplyBestK ==
    /\ pc = "selected"
    /\ cluster' = results[best_k].labels
    /\ pc' = "applied"
    /\ UNCHANGED <<error, main_vars, data_dir, kmed, df, feature_matrix, step3_vars, step5_vars, rerun>>

\* The end of run: the clustered table is saved, the locals are dropped.
SaveClustered ==
    /\ pc = "applied"
    /\ pc' = "clustered"
    /\ feature_matrix' = <<>>
    /\ gower_dist' = <<>>
    /\ k' = 0
    /\ results' = <<>>
    /\ best_k' = 0
    /\ UNCHANGED <<error, main_vars, data_dir, kmed, df, cluster, step5_vars>>

Step3Save == SaveClustered /\ UNCHANGED rerun

\* -------------------------------------------------------------------- step 5
\* run and the head of bootstrap_validation: the clustered table is read back,
\* best_k is the number of distinct labels in it, the features are prepared
\* again and the counters start at zero.
BootstrapStart ==
    /\ pc = "clustered"
    /\ boot_k' = NUnique(cluster)
    /\ feature_matrix' = PrepareFeatures(df)
    /\ coassoc' = Zeros(n)
    /\ count_matrix' = Zeros(n)
    /\ ari_scores' = <<>>
    /\ sil_scores' = <<>>
    /\ i' = 0
    /\ pc' = "boot_sample"
    /\ UNCHANGED <<error, main_vars, data_dir, kmed, df, cluster, step3_vars, idx_sorted, boot_gower_dist,
                   boot_labels, cluster_stability, rerun>>

\* np.random.choice(n, size=sample_size, replace=False): the global generator
\* is never seeded, so the sample is any subset of that size.
Samples(m, size) == {S \in SUBSET (1..m) : Cardinality(S) = size}

\* The first half of one iteration, the sample drawn being idx: sort it, take
\* its rows and compute their distance matrix.
TakeSample(idx) ==
    /\ pc = "boot_sample"
    /\ i < NIter
    /\ idx_sorted' = SortedSeq(idx)
    /\ boot_gower_dist' = GowerMatrix(ILoc(feature_matrix, SortedSeq(idx)),
                                      CatMask(feature_matrix))
    /\ pc' = "boot_fit"
    /\ UNCHANGED <<error, main_vars, data_dir, kmed, df, feature_matrix, cluster, step3_vars, boot_k, i,
                   boot_labels, coassoc, count_matrix, ari_scores, sil_scores,
                   cluster_stability>>

BootSample ==
    /\ \E idx \in Samples(n, SampleSize(n)) : TakeSample(idx)
    /\ UNCHANGED rerun

\* The position of record x in the sorted sample.
Pos(idx, x) == CHOOSE a \in DOMAIN idx : idx[a] = x

\* The loop over the pairs a < b of sample positions: both entries of the pair
\* of records (idx[a], idx[b]) are incremented.
\* UpdateCount without the line count_matrix[i_b, i_a] += 1.
UpdateCountUpperOnly(cnt, idx) ==
    LET S == Range(idx)
    IN  [x \in DOMAIN cnt |-> [y \in DOMAIN cnt |->
            IF x < y /\ x \in S /\ y \in S THEN cnt[x][y] + 1 ELSE cnt[x][y]]]

UpdateCount(cnt, idx) ==
    LET S == Range(idx)
    IN  [x \in DOMAIN cnt |-> [y \in DOMAIN cnt |->
            IF x # y /\ x \in S /\ y \in S THEN cnt[x][y] + 1 ELSE cnt[x][y]]]

\* UpdateCoassoc writing at the positions a, b inside the sample instead of the
\* records idx[a], idx[b].
UpdateCoassocAtPositions(co, idx, labels) ==
    [x \in DOMAIN co |-> [y \in DOMAIN co |->
        IF /\ x # y /\ x \in DOMAIN idx /\ y \in DOMAIN idx
           /\ labels[x] = labels[y]
        THEN co[x][y] + 1 ELSE co[x][y]]]

\* UpdateCoassoc overwriting the entry of a sampled pair with 1 or 0 in the
\* place of adding to it.
UpdateCoassocOverwrite(co, idx, labels) ==
    LET S == Range(idx)
    IN  [x \in DOMAIN co |-> [y \in DOMAIN co |->
            IF x # y /\ x \in S /\ y \in S
            THEN (IF labels[Pos(idx, x)] = labels[Pos(idx, y)] THEN 1 ELSE 0)
            ELSE co[x][y]]]

\* UpdateCoassoc without the line coassoc[i_b, i_a] += 1.
UpdateCoassocUpperOnly(co, idx, labels) ==
    LET S == Range(idx)
    IN  [x \in DOMAIN co |-> [y \in DOMAIN co |->
            IF /\ x < y /\ x \in S /\ y \in S
               /\ labels[Pos(idx, x)] = labels[Pos(idx, y)]
            THEN co[x][y] + 1 ELSE co[x][y]]]

UpdateCoassoc(co, idx, labels) ==
    LET S == Range(idx)
    IN  [x \in DOMAIN co |-> [y \in DOMAIN co |->
            IF /\ x # y /\ x \in S /\ y \in S
               /\ labels[Pos(idx, x)] = labels[Pos(idx, y)]
            THEN co[x][y] + 1 ELSE co[x][y]]]

\* OrigSubset taking the first labels of the table, one per sample position.
OrigSubsetAtPositions(labels, idx) == [a \in DOMAIN idx |-> labels[a]]

\* original_labels[idx_sorted]
OrigSubset(labels, idx) == [a \in DOMAIN idx |-> labels[idx[a]]]

\* The second half of one iteration: KMedoids on the sample, the silhouette
\* when more than one label is populated, the adjusted Rand index against the
\* original labels of the sampled records, the pair counters.
FitSample ==
    /\ pc = "boot_fit"
    /\ IF boot_k > Len(idx_sorted)
       THEN /\ Raise("ValueError: KMedoids: more medoids than samples")
            /\ UNCHANGED <<i, boot_labels, coassoc, count_matrix, ari_scores,
                           sil_scores>>
       ELSE \E labels \in FitOutcomes(boot_gower_dist, boot_k) :
              LET orig_subset == OrigSubset(cluster, idx_sorted)
              IN  IF NUnique(labels) > 1 /\ ~SilhouetteDefined(labels)
                  THEN /\ Raise("ValueError: silhouette_score: number of labels")
                       /\ boot_labels' = labels
                       /\ UNCHANGED <<i, coassoc, count_matrix, ari_scores,
                                      sil_scores>>
                  ELSE /\ boot_labels' = labels
                       /\ sil_scores' =
                             IF NUnique(labels) > 1
                             THEN Append(sil_scores,
                                         SilhouetteScore(boot_gower_dist, labels))
                             ELSE sil_scores
                       /\ ari_scores' = Append(ari_scores,
                                               AdjustedRandScore(orig_subset, labels))
                       /\ count_matrix' = UpdateCount(count_matrix, idx_sorted)
                       /\ coassoc' = UpdateCoassoc(coassoc, idx_sorted, labels)
                       /\ i' = i + 1
                       /\ pc' = "boot_sample"
                       /\ UNCHANGED error
    /\ UNCHANGED <<main_vars, data_dir, kmed, df, feature_matrix, cluster, step3_vars, boot_k, idx_sorted,
                   boot_gower_dist, cluster_stability>>

BootFit == FitSample /\ UNCHANGED rerun

\* stability_matrix = np.where(count_matrix > 0, coassoc / count_matrix, 0)
StabilityMatrix(co, cnt) ==
    [x \in DOMAIN cnt |-> [y \in DOMAIN cnt |->
        IF cnt[x][y] > 0 THEN RNorm(<<co[x][y], cnt[x][y]>>) ELSE <<0, 1>>]]

\* The stability of cluster c: the mean of the stability matrix over the pairs
\* of distinct members, 1.0 for a cluster of one member.
ClusterStability(co, cnt, labels, c) ==
    LET members == SortedSeq({x \in DOMAIN labels : labels[x] = c})
        m == Len(members)
        sm == StabilityMatrix(co, cnt)
        total == RSum([q \in 1..(m * m) |->
                         LET a == ((q - 1) \div m) + 1
                             b == ((q - 1) % m) + 1
                         IN  IF a = b THEN <<0, 1>> ELSE sm[members[a]][members[b]]])
    IN  IF m > 1 THEN RNorm(<<total[1], total[2] * m * (m - 1)>>) ELSE <<1, 1>>

\* After the loop: the per-cluster stability and the report.
BootstrapFinish ==
    /\ pc = "boot_sample"
    /\ i = NIter
    /\ cluster_stability' = [c \in Range(cluster) |->
                               ClusterStability(coassoc, count_matrix, cluster, c)]
    /\ pc' = "done"
    /\ UNCHANGED <<error, main_vars, data_dir, kmed, df, feature_matrix, cluster, step3_vars, boot_k, i,
                   idx_sorted, boot_gower_dist, boot_labels, coassoc, count_matrix,
                   ari_scores, sil_scores, rerun>>

Next ==
    \/ Step3Prepare
    \/ ComputeGower
    \/ ScanK
    \/ PlotSilhouetteScores
    \/ ApplyBestK
    \/ Step3Save
    \/ BootstrapStart
    \/ BootSample
    \/ BootFit
    \/ BootstrapFinish

Spec == Init /\ [][Next]_vars

\* ------------------------------------------------------------------ two runs
\* A second run of the pipeline on the same files, followed side by side with
\* the first.  Step 3 draws nothing but the draws of random_state=42 and the
\* KMedoids of iteration i nothing but those of random_state=i, which are the
\* same in both runs, so as long as both runs drew the same samples the second
\* run is in the state of the first.  rerun.agree says that they did so far,
\* rerun.idx_sorted is the sample the second run drew in this iteration; once
\* the samples differ the second run is no longer followed.
ReproTables == {t \in Tables(MaxN) : \A a \in 1..MaxN : t[a].PatientWeight <= 1}

InitRepro == \E t \in ReproTables : Start(t, [agree |-> TRUE, idx_sorted |-> <<>>])

\* Both runs draw their sample from the global generator, each its own.
BootSampleTwice ==
    \E idx, idx2 \in Samples(n, SampleSize(n)) :
        /\ TakeSample(idx)
        /\ rerun' = IF rerun.agree
                    THEN [agree |-> idx2 = idx, idx_sorted |-> SortedSeq(idx2)]
                    ELSE rerun

NextRepro ==
    \/ Step3Prepare
    \/ ComputeGower
    \/ ScanK
    \/ PlotSilhouetteScores
    \/ ApplyBestK
    \/ Step3Save
    \/ BootstrapStart
    \/ BootSampleTwice
    \/ BootFit
    \/ BootstrapFinish

SpecRepro == InitRepro /\ [][NextRepro]_vars

\* ------------------------------------------------------- the trials on record
\* The run of Spec with a record of what each round of the two loops produced:
\* rerun.scan lists the candidates of the k loop in the order they were
\* computed (dropped with the locals of step 3), rerun.boot the sample, the
\* labels and the scores of every bootstrap iteration, rerun.best_k the k that
\* step 3 chose (0 before step 3 ends).
InitOrder ==
    \E t \in ReproTables : Start(t, [scan |-> <<>>, boot |-> <<>>, best_k |-> 0])

ScanKRecorded ==
    /\ ScanTrial
    /\ rerun' = IF pc' = "error" THEN rerun
                ELSE [rerun EXCEPT !.scan =
                        Append(@, [k |-> k, labels |-> results'[k].labels,
                                   silhouette |-> results'[k].silhouette,
                                   model |-> results'[k].model])]

Step3SaveRecorded ==
    /\ SaveClustered
    /\ rerun' = [rerun EXCEPT !.scan = <<>>, !.best_k = best_k]

BootFitRecorded ==
    /\ FitSample
    /\ rerun' = IF pc' = "error" THEN rerun
                ELSE [rerun EXCEPT !.boot =
                        Append(@, [idx_sorted |-> idx_sorted,
                                   labels |-> boot_labels',
                                   ari |-> ari_scores'[Len(ari_scores')],
                                   sil |-> SubSeq(sil_scores', Len(sil_scores) + 1,
                                                  Len(sil_scores'))])]

NextOrder ==
    \/ Step3Prepare
    \/ ComputeGower
    \/ ScanKRecorded
    \/ PlotSilhouetteScores
    \/ ApplyBestK
    \/ Step3SaveRecorded
    \/ BootstrapStart
    \/ BootSample
    \/ BootFitRecorded
    \/ BootstrapFinish

SpecOrder == InitOrder /\ [][NextOrder]_vars

\* The same with k_range = range(KMax, KMax + 1): the scan has one candidate,
\* as config.K_RANGE has none below 3.  Every table is followed.
InitOneK ==
    \E t \in UNION {Tables(m) : m \in 0..MaxN} :
        Start(t, [scan |-> <<>>, boot |-> <<>>, best_k |-> 0])

ComputeGowerOneK == ComputeGowerFrom(KMax) /\ UNCHANGED rerun

NextOneK ==
    \/ Step3Prepare
    \/ ComputeGowerOneK
    \/ ScanKRecorded
    \/ PlotSilhouetteScores
    \/ ApplyBestK
    \/ Step3SaveRecorded
    \/ BootstrapStart
    \/ BootSample
    \/ BootFitRecorded
    \/ BootstrapFinish

SpecOneK == InitOneK /\ [][NextOneK]_vars

\* The orders in which m rounds can be taken.
Orders(m) == {o \in [1..m -> 1..m] : \A a, b \in 1..m : o[a] = o[b] => a = b}

\* results[k] = {...} for the recorded candidates taken in the given order.
RECURSIVE MergeResults(_, _, _)
MergeResults(trials, order, acc) ==
    IF order = <<>> THEN acc
    ELSE LET t == trials[Head(order)]
         IN  MergeResults(trials, Tail(order),
                          (t.k :> [labels |-> t.labels, silhouette |-> t.silhouette,
                                   model |-> t.model])
                              @@ acc)

\* The counter updates of the recorded iterations taken in the given order.
RECURSIVE MergeCounters(_, _, _)
MergeCounters(trials, order, acc) ==
    IF order = <<>> THEN acc
    ELSE LET t == trials[Head(order)]
         IN  MergeCounters(trials, Tail(order),
                [coassoc |-> UpdateCoassoc(acc.coassoc, t.idx_sorted, t.labels),
                 count_matrix |-> UpdateCount(acc.count_matrix, t.idx_sorted)])

\* The scores appended by the recorded iterations taken in the given order.
RECURSIVE MergeScores(_, _, _)
MergeScores(trials, order, acc) ==
    IF order = <<>> THEN acc
    ELSE LET t == trials[Head(order)]
         IN  MergeScores(trials, Tail(order),
                [ari_scores |-> Append(acc.ari_scores, t.ari),
                 sil_scores |-> acc.sil_scores \o t.sil])

\* A list of scores as a multiset.
SeqBag(s) == [v \in Range(s) |-> Cardinality({j \in DOMAIN s : s[j] = v})]

\* ----------------------------------------------------------------- main.py
\* The runner alone: what run() of a step does is left out, it returns or it
\* raises.  The words of the command line are integers (int(s) succeeds).
KnownSteps == 1..LastStep

ArgLists == UNION {[1..m -> 0..MaxStep] : m \in 0..MaxArgs}

\* The state before main runs with the words args on the command line and the
\* intermediate files dir.
StartMain(args, dir) ==
        /\ argv = args
        /\ data_dir = dir
        /\ kmed = <<>>
        /\ steps = <<>>
        /\ step_at = 0
        /\ run_log = <<>>
        /\ pc = "main"
        /\ error = ""
        /\ df = <<>>
        /\ feature_matrix = <<>>
        /\ gower_dist = <<>>
        /\ k = 0
        /\ results = <<>>
        /\ best_k = 0
        /\ cluster = <<>>
        /\ boot_k = 0
        /\ i = 0
        /\ idx_sorted = <<>>
        /\ boot_gower_dist = <<>>
        /\ boot_labels = <<>>
        /\ coassoc = <<>>
        /\ count_matrix = <<>>
        /\ ari_scores = <<>>
        /\ sil_scores = <<>>
        /\ cluster_stability = <<>>
        /\ rerun = <<>>

InitMain == \E args \in ArgLists : StartMain(args, <<>>)

model_vars == <<data_dir, kmed, df, feature_matrix, cluster, step3_vars, step5_vars, rerun>>

\* main: steps is the command line, or all six steps when it names none.
ParseArgs ==
    /\ pc = "main"
    /\ steps' = IF Len(argv) > 0 THEN argv ELSE [s \in 1..LastStep |-> s]
    /\ step_at' = 1
    /\ pc' = "main_loop"
    /\ UNCHANGED <<argv, run_log, error, model_vars>>

\* run_step up to the call of run(): an unknown number is reported and
\* run_step returns, the loop goes on.
RunStepStopOnUnknown ==
    /\ pc = "main_loop"
    /\ step_at <= Len(steps)
    /\ IF steps[step_at] \in KnownSteps
       THEN /\ run_log' = Append(run_log, [step |-> steps[step_at], what |-> "start"])
            /\ pc' = "in_step"
            /\ UNCHANGED step_at
       ELSE /\ run_log' = Append(run_log, [step |-> steps[step_at], what |-> "unknown"])
            /\ step_at' = Len(steps) + 1
            /\ UNCHANGED pc
    /\ UNCHANGED <<argv, steps, error, model_vars>>

RunStep ==
    /\ pc = "main_loop"
    /\ step_at <= Len(steps)
    /\ IF steps[step_at] \in KnownSteps
       THEN /\ run_log' = Append(run_log, [step |-> steps[step_at], what |-> "start"])
            /\ pc' = "in_step"
            /\ UNCHANGED step_at
       ELSE /\ run_log' = Append(run_log, [step |-> steps[step_at], what |-> "unknown"])
            /\ step_at' = step_at + 1
            /\ UNCHANGED pc
    /\ UNCHANGED <<argv, steps, error, model_vars>>

\* run() returns: run_step prints the completion line and the loop goes on.
StepReturns ==
    /\ pc = "in_step"
    /\ run_log' = Append(run_log, [step |-> steps[step_at], what |-> "end"])
    /\ step_at' = step_at + 1
    /\ pc' = "main_loop"
    /\ UNCHANGED <<argv, steps, error, model_vars>>

\* run() raises: nothing catches it, the pipeline ends there.
StepRaises ==
    /\ pc = "in_step"
    /\ run_log' = Append(run_log, [step |-> steps[step_at], what |-> "raise"])
    /\ Raise("exception in run()")
    /\ UNCHANGED <<argv, steps, step_at, model_vars>>

\* The loop is over: PIPELINE COMPLETE.
MainEnd ==
    /\ pc = "main_loop"
    /\ step_at > Len(steps)
    /\ pc' = "complete"
    /\ UNCHANGED <<main_vars, error, model_vars>>

NextMain ==
    \/ ParseArgs
    \/ RunStep
    \/ StepReturns
    \/ StepRaises
    \/ MainEnd

SpecMain == InitMain /\ [][NextMain]_vars

\* ------------------------------------------------------- the encoder alone
\* prepare_features and the distance matrix on tables that have a categorical
\* feature, whose value can be missing.
EncounterWithVisit ==
    [PatientWeight : 0..1, has_antibiotic : 0..1,
     VisitType : Range(CategoryValues) \cup {NaN}]

InitEncoder ==
    \E m \in 1..MaxEncRows : \E t \in [1..m -> EncounterWithVisit] : Start(t, <<>>)

NextEncoder ==
    \/ Step3Prepare
    \/ ComputeGower

SpecEncoder == InitEncoder /\ [][NextEncoder]_vars

\* ------------------------------------------------ the runner and the files
\* The runner with the intermediate files of config.py.  A file of data_dir is
\* "absent", "stale" (left by an earlier run), "written" (to_csv of this run
\* returned) or "partial" (to_csv of this run raised).
Files == {"ENCOUNTER_CLEAN_PATH", "ENCOUNTER_PRESCRIBER_PATH", "ENCOUNTER_CLUSTERED_PATH"}

ReadCsv(f) == [op |-> "read", file |-> f]

ToCsv(f) == [op |-> "write", file |-> f]

\* StepFiles with step 3 saving to the path it has read.
StepFilesStep3SavesInPlace(s) ==
    CASE s = 1 -> <<ToCsv("ENCOUNTER_CLEAN_PATH")>>
      [] s = 2 -> <<ReadCsv("ENCOUNTER_CLEAN_PATH"), ToCsv("ENCOUNTER_PRESCRIBER_PATH")>>
      [] s = 3 -> <<ReadCsv("ENCOUNTER_PRESCRIBER_PATH"), ToCsv("ENCOUNTER_PRESCRIBER_PATH")>>
      [] s = 4 -> <<ReadCsv("ENCOUNTER_CLUSTERED_PATH")>>
      [] s = 5 -> <<ReadCsv("ENCOUNTER_CLUSTERED_PATH"), ReadCsv("ENCOUNTER_PRESCRIBER_PATH")>>
      [] s = 6 -> <<ReadCsv("ENCOUNTER_CLEAN_PATH"), ReadCsv("ENCOUNTER_PRESCRIBER_PATH"),
                    ReadCsv("ENCOUNTER_CLUSTERED_PATH")>>

\* The pd.read_csv and df.to_csv calls on intermediate files that run() of
\* each step makes, in the order it makes them.
StepFiles(s) ==
    CASE s = 1 -> <<ToCsv("ENCOUNTER_CLEAN_PATH")>>
      [] s = 2 -> <<ReadCsv("ENCOUNTER_CLEAN_PATH"), ToCsv("ENCOUNTER_PRESCRIBER_PATH")>>
      [] s = 3 -> <<ReadCsv("ENCOUNTER_PRESCRIBER_PATH"), ToCsv("ENCOUNTER_CLUSTERED_PATH")>>
      [] s = 4 -> <<ReadCsv("ENCOUNTER_CLUSTERED_PATH")>>
      [] s = 5 -> <<ReadCsv("ENCOUNTER_CLUSTERED_PATH"), ReadCsv("ENCOUNTER_PRESCRIBER_PATH")>>
      [] s = 6 -> <<ReadCsv("ENCOUNTER_CLEAN_PATH"), ReadCsv("ENCOUNTER_PRESCRIBER_PATH"),
                    ReadCsv("ENCOUNTER_CLUSTERED_PATH")>>

\* The file calls the running step has made: the entries of the log after its
\* start.
CallsMade ==
    Len(run_log) - SetMax({p \in DOMAIN run_log : run_log[p].what = "start"})

pipeline_vars == <<kmed, df, feature_matrix, cluster, step3_vars, step5_vars, rerun>>

\* The next file call of the running step returns: read_csv of a file that
\* exists, or to_csv.
StepFileCall ==
    /\ pc = "in_step"
    /\ CallsMade < Len(StepFiles(steps[step_at]))
    /\ LET call == StepFiles(steps[step_at])[CallsMade + 1]
       IN  IF call.op = "read"
           THEN /\ data_dir[call.file] # "absent"
                /\ run_log' = Append(run_log, [step |-> steps[step_at], what |-> "read",
                                               file |-> call.file,
                                               saw |-> data_dir[call.file]])
                /\ UNCHANGED data_dir
           ELSE /\ run_log' = Append(run_log, [step |-> steps[step_at], what |-> "write",
                                               file |-> call.file])
                /\ data_dir' = [data_dir EXCEPT ![call.file] = "written"]
    /\ UNCHANGED <<argv, steps, step_at, pc, error, pipeline_vars>>

\* run() raises, in the next file call (read_csv of a file that is absent
\* always does, to_csv may leave a part of the file) or in its other code:
\* nothing catches it, the pipeline ends there.
StepFails ==
    /\ pc = "in_step"
    /\ run_log' = Append(run_log, [step |-> steps[step_at], what |-> "raise"])
    /\ Raise("exception in run()")
    /\ \/ UNCHANGED data_dir
       \/ /\ CallsMade < Len(StepFiles(steps[step_at]))
          /\ LET call == StepFiles(steps[step_at])[CallsMade + 1]
             IN  /\ call.op = "write"
                 /\ data_dir' = [data_dir EXCEPT ![call.file] = "partial"]
    /\ UNCHANGED <<argv, steps, step_at, pipeline_vars>>

\* run() returns after its last file call.
StepCompletes ==
    /\ pc = "in_step"
    /\ CallsMade = Len(StepFiles(steps[step_at]))
    /\ run_log' = Append(run_log, [step |-> steps[step_at], what |-> "end"])
    /\ step_at' = step_at + 1
    /\ pc' = "main_loop"
    /\ UNCHANGED <<argv, steps, error, model_vars>>

InitPipeline ==
    \E args \in ArgLists : \E dir \in [Files -> {"absent", "stale"}] :
        StartMain(args, dir)

NextPipeline ==
    \/ ParseArgs
    \/ RunStep
    \/ StepFileCall
    \/ StepFails
    \/ StepCompletes
    \/ MainEnd

SpecPipeline == InitPipeline /\ [][NextPipeline]_vars

\* ------------------------------------------------- KMedoids round by round
\* One fit of KMedoids on the full distance matrix, for a k of the scan range
\* and the draws r of its seed, followed through the rounds of its loop:
\* kmed.medoid_idxs are the medoids, kmed.n_iter the rounds made.
FitInit ==
    /\ pc = "scan"
    /\ \E kk \in KMin..KMax : \E r \in Draws(n, kk) :
          /\ kk <= n
          /\ k' = kk
          /\ kmed' = [medoid_idxs |-> KppInit(gower_dist, kk, r), n_iter |-> 0]
    /\ pc' = "fit"
    /\ UNCHANGED <<error, main_vars, data_dir, df, feature_matrix, gower_dist, results, best_k,
                   cluster, step5_vars, rerun>>

\* One round of for self.n_iter_ in range(0, self.max_iter): labels, medoid
\* update, break when no medoid changed.
FitRound ==
    /\ pc = "fit"
    /\ IF kmed.n_iter = MAX_ITER
       THEN /\ pc' = "fitted"
            /\ UNCHANGED kmed
       ELSE LET new == UpdateMedoids(gower_dist,
                                     AssignLabels(gower_dist, kmed.medoid_idxs),
                                     kmed.medoid_idxs)
            IN  /\ kmed' = [medoid_idxs |-> new, n_iter |-> kmed.n_iter + 1]
                /\ pc' = IF new = kmed.medoid_idxs THEN "fitted" ELSE "fit"
    /\ UNCHANGED <<error, main_vars, data_dir, df, feature_matrix, cluster, step3_vars,
                   step5_vars, rerun>>

InitFit == \E t \in UNION {Tables(m) : m \in 0..MaxN} : Start(t, <<>>)

NextFit ==
    \/ Step3Prepare
    \/ ComputeGower
    \/ FitInit
    \/ FitRound

SpecFit == InitFit /\ [][NextFit]_vars

\* ------------------------------------------------- adjusted Rand index alone
\* The call ari = adjusted_rand_score(original_labels[idx_sorted], boot_labels)
\* on its own: cluster holds the original labels of the sampled records,
\* boot_labels the labels of the sample, any two label vectors of one length.
LabelVectors(m) == [1..m -> 0..(KMax - 1)]

InitAri ==
    \E m \in 1..MaxN : \E labels_true, labels_pred \in LabelVectors(m) :
        /\ pc = "ari"
        /\ error = ""
        /\ data_dir = <<>>
        /\ df = <<>>
        /\ feature_matrix = <<>>
        /\ gower_dist = <<>>
        /\ k = 0
        /\ results = <<>>
        /\ best_k = 0
        /\ cluster = labels_true
        /\ boot_k = 0
        /\ i = 0
        /\ idx_sorted = <<>>
        /\ boot_gower_dist = <<>>
        /\ boot_labels = labels_pred
        /\ coassoc = <<>>
        /\ count_matrix = <<>>
        /\ ari_scores = <<>>
        /\ sil_scores = <<>>
        /\ cluster_stability = <<>>
        /\ rerun = <<>>
        /\ kmed = <<>>
        /\ argv = <<>>
        /\ steps = <<>>
        /\ step_at = 0
        /\ run_log = <<>>

AriScore ==
    /\ pc = "ari"
    /\ ari_scores' = Append(ari_scores, AdjustedRandScore(cluster, boot_labels))
    /\ pc' = "ari_done"
    /\ UNCHANGED <<error, main_vars, data_dir, kmed, df, feature_matrix, cluster, step3_vars, boot_k, i,
                   idx_sorted, boot_gower_dist, boot_labels, coassoc, count_matrix,
                   sil_scores, cluster_stability, rerun>>

NextAri == AriScore

SpecAri == InitAri /\ [][NextAri]_vars

\* ------------------------------------------------------------------- claims
NCols == Len(NUMERICAL_FEATURES) + Len(BINARY_FEATURES)

IsDistanceMatrix(D) ==
    \A a, b \in DOMAIN D :
        /\ D[a][b] = D[b][a]
        /\ D[a][a] = 0
        /\ 0 <= D[a][b]
        /\ D[a][b] <= DistDen(NCols)

\* C1: every distance matrix over at least 2 rows, the full one of step 3 and
\* the one of each bootstrap sample, is symmetric, has a zero diagonal and has
\* every entry in [0, 1].
C1_DistanceMatrixSymmetricBounded ==
    \A D \in {gower_dist, boot_gower_dist} : Len(D) >= 2 => IsDistanceMatrix(D)

\* A bootstrap sample whose scaled column has a negative maximum and whose
\* matrix has an entry strictly between 0 and 1.
C1_Witness ==
    /\ pc = "boot_fit"
    /\ \A a \in DOMAIN idx_sorted : feature_matrix.values[idx_sorted[a]][1] < 0
    /\ \E a, b \in DOMAIN boot_gower_dist :
          0 < boot_gower_dist[a][b] /\ boot_gower_dist[a][b] < DistDen(NCols)

\* C2: whenever the clusterer returned labels for k, each of the k labels is
\* assigned to at least one point (candidates of the scan, labels of a
\* bootstrap iteration).
C2_ExactlyKPopulatedClusters ==
    /\ \A kk \in DOMAIN results : NUnique(results[kk].labels) = kk
    /\ boot_labels # <<>> => NUnique(boot_labels) = boot_k

\* C3: the chosen k is a k of the candidate table, its silhouette is at least
\* that of every candidate, and the labels applied are those of the chosen
\* candidate.
C3_ChosenKIsBest ==
    /\ pc \in {"selected", "applied"} =>
          /\ best_k \in DOMAIN results
          /\ \A kk \in DOMAIN results :
                ~RLess(results[best_k].silhouette, results[kk].silhouette)
    /\ pc = "applied" => cluster = results[best_k].labels

\* The labels are applied, the chosen k is not the first of the table and
\* beats another candidate.
C3_Witness ==
    /\ pc = "applied"
    /\ best_k > KMin
    /\ \E kk \in DOMAIN results :
          RLess(results[kk].silhouette, results[best_k].silhouette)

\* C4: two runs on the same input draw the same sample in every bootstrap
\* iteration.
C4_SameSamplesInBothRuns == rerun.agree

\* C5: wherever the seen-together count is > 0, the normalized co-association
\* is a value in [0, 1].
C5_NormalizedCoassocInUnitInterval ==
    \A x, y \in DOMAIN count_matrix :
        count_matrix[x][y] > 0 =>
            LET q == StabilityMatrix(coassoc, count_matrix)[x][y]
            IN  0 <= q[1] /\ q[1] <= q[2]

\* A pair seen together twice and clustered together once.
C5_Witness ==
    \E x, y \in DOMAIN count_matrix :
        count_matrix[x][y] = 2 /\ coassoc[x][y] = 1

\* A trial is degenerate when fewer than k clusters are populated or the
\* silhouette is not defined.
TrialDegenerate(labels, kk) == NUnique(labels) < kk \/ ~SilhouetteDefined(labels)

\* C6: a degenerate bootstrap iteration adds no score and no counter increment,
\* and the loop goes on with the next iteration.
C6_DegenerateTrialSkipped ==
    [][(/\ pc = "boot_fit"
        /\ boot_k <= Len(idx_sorted)
        /\ TrialDegenerate(boot_labels', boot_k))
       => /\ ari_scores' = ari_scores
          /\ sil_scores' = sil_scores
          /\ coassoc' = coassoc
          /\ count_matrix' = count_matrix
          /\ i' = i + 1
          /\ pc' = "boot_sample"]_vars

\* C7: when every iteration was skipped no stability report is returned.  Here
\* every one of the NIter iterations populated a single cluster where
\* boot_k > 1 were asked for (no silhouette was recorded).
C7_NoReportWhenEveryTrialSkipped ==
    ~(/\ pc = "done"
      /\ boot_k > 1
      /\ Len(ari_scores) = NIter
      /\ sil_scores = <<>>)

\* C8: the scan ends in an error only if every k of the range degenerated: no
\* candidate with k populated clusters was computed before the error.
C8_ScanFatalOnlyIfEveryKDegenerated ==
    (pc = "error" /\ k > 0) =>
        \A kk \in DOMAIN results : NUnique(results[kk].labels) < kk

\* C9: when k_max >= n, no candidate is returned whose labelling has fewer
\* populated clusters than its k.
C9_NoCandidateShortOfK ==
    (pc = "scanned" /\ KMax >= n) =>
        \A kk \in DOMAIN results : NUnique(results[kk].labels) >= kk

\* C10: with fewer than 2 records the run fails before any distance is
\* computed.
C10_NoDistanceBelowTwoRows == n < 2 => gower_dist = <<>>

\* C11: the adjusted agreement score between a label vector and itself is 1.0,
\* for every label vector over a non-empty item set.
C11_AriOfPartitionWithItselfIsOne ==
    (pc = "ari_done" /\ cluster = boot_labels) => ari_scores = << <<1, 1>> >>

\* The one-cluster partition of at least two items scored against itself.
C11_Witness ==
    /\ pc = "ari_done"
    /\ cluster = boot_labels
    /\ Len(cluster) >= 2
    /\ NUnique(cluster) = 1

\* C12: two rows of a feature matrix with equal values in every column are at
\* distance exactly 0, in the full matrix and in the matrix of every bootstrap
\* sample, also when the continuous column has range 0.
C12_IdenticalRowsAtDistanceZero ==
    /\ gower_dist # <<>> =>
          \A a, b \in DOMAIN gower_dist :
              feature_matrix.values[a] = feature_matrix.values[b]
                  => gower_dist[a][b] = 0
    /\ boot_gower_dist # <<>> =>
          \A a, b \in DOMAIN boot_gower_dist :
              feature_matrix.values[idx_sorted[a]] = feature_matrix.values[idx_sorted[b]]
                  => boot_gower_dist[a][b] = 0

\* The full matrix of a table whose continuous column is constant, with two
\* identical records and a third that differs from them.
C12_Witness ==
    /\ pc = "scan"
    /\ \A a, b \in DOMAIN df : df[a].PatientWeight = df[b].PatientWeight
    /\ \E a, b, c \in DOMAIN gower_dist :
          /\ a # b
          /\ feature_matrix.values[a] = feature_matrix.values[b]
          /\ gower_dist[a][b] = 0
          /\ gower_dist[a][c] > 0

Rounds == SelectSeq(run_log, LAMBDA e : e.what \in {"start", "unknown"})

\* C14: the runner takes the steps named on the command line (all of 1..6 in
\* ascending order when none is named) in the order given, one round per step;
\* a known step is started only when the step before it has returned, a number
\* outside 1..6 is reported as unknown and the steps after it are still taken;
\* when the pipeline completes every step was taken and every known step ran
\* to its end.
C14_RunnerTakesNamedStepsInOrder ==
    /\ pc # "main" =>
          steps = IF argv = <<>> THEN <<1, 2, 3, 4, 5, 6>> ELSE argv
    /\ Len(Rounds) <= Len(steps)
    /\ \A j \in DOMAIN Rounds :
          /\ Rounds[j].step = steps[j]
          /\ (Rounds[j].what = "unknown") = (steps[j] \notin 1..6)
    /\ \A p \in DOMAIN run_log :
          (run_log[p].what = "start" /\ p < Len(run_log)) =>
              /\ run_log[p + 1].step = run_log[p].step
              /\ run_log[p + 1].what \in {"end", "raise"}
    /\ \A p \in DOMAIN run_log :
          run_log[p].what = "raise" => (p = Len(run_log) /\ pc = "error")
    /\ pc = "complete" =>
          /\ Len(Rounds) = Len(steps)
          /\ \A p \in DOMAIN run_log :
                run_log[p].what = "start" => p < Len(run_log)

\* A completed pipeline whose command line names an unknown step and a known
\* step after it.
C14_Witness ==
    /\ pc = "complete"
    /\ \E j \in 1..(Len(argv) - 1) : argv[j] \notin 1..6 /\ argv[j + 1] \in 1..6

\* C15: a bootstrap iteration that completes adds exactly 1 to the
\* seen-together counter of every pair of distinct sampled records (both
\* entries of the pair), adds exactly 1 to their co-clustered counter if and
\* only if the two records got the same label in the sample, and leaves the
\* counters of every other pair as they were.
C15_PairCountersUpdatedPerTrial ==
    [][(pc = "boot_fit" /\ pc' = "boot_sample") =>
          /\ \A a, b \in DOMAIN idx_sorted :
                a # b =>
                  LET x == idx_sorted[a]
                      y == idx_sorted[b]
                  IN  /\ count_matrix'[x][y] = count_matrix[x][y] + 1
                      /\ coassoc'[x][y] = coassoc[x][y] +
                            (IF boot_labels'[a] = boot_labels'[b] THEN 1 ELSE 0)
          /\ \A x, y \in DOMAIN count_matrix :
                (x = y \/ x \notin Range(idx_sorted) \/ y \notin Range(idx_sorted)) =>
                  /\ count_matrix'[x][y] = count_matrix[x][y]
                  /\ coassoc'[x][y] = coassoc[x][y]]_vars

\* After the first iteration: a sampled pair with equal labels, a sampled pair
\* with different labels and a record outside the sample.
C15_Witness ==
    /\ pc = "boot_sample"
    /\ i = 1
    /\ \E a, b, c \in DOMAIN idx_sorted :
          /\ a # b
          /\ boot_labels[a] = boot_labels[b]
          /\ boot_labels[a] # boot_labels[c]
          /\ coassoc[idx_sorted[a]][idx_sorted[b]] = 1
          /\ coassoc[idx_sorted[a]][idx_sorted[c]] = 0
          /\ count_matrix[idx_sorted[a]][idx_sorted[c]] = 1
    /\ \E x, y \in DOMAIN count_matrix : x # y /\ count_matrix[x][y] = 0

\* The sum of co-association / count over a set of pairs of records.
RECURSIVE SumOverPairs(_, _, _)
SumOverPairs(co, cnt, pairs) ==
    IF pairs = {} THEN <<0, 1>>
    ELSE LET p == CHOOSE q \in pairs : TRUE
         IN  RAdd(RNorm(<<co[p[1]][p[2]], cnt[p[1]][p[2]]>>),
                  SumOverPairs(co, cnt, pairs \ {p}))

\* C16: for a cluster of the original labelling with at least two members, the
\* reported stability is the mean of co-association / count over the pairs of
\* distinct members that were sampled together at least once; a pair that was
\* never sampled together does not enter the mean.
C16_StabilityIsMeanOverSeenPairs ==
    pc = "done" =>
        \A c \in DOMAIN cluster_stability :
            LET members == {x \in DOMAIN cluster : cluster[x] = c}
                seen == {p \in members \X members :
                            p[1] # p[2] /\ count_matrix[p[1]][p[2]] > 0}
                total == SumOverPairs(coassoc, count_matrix, seen)
            IN  (Cardinality(members) >= 2 /\ seen # {}) =>
                    cluster_stability[c] =
                        RNorm(<<total[1], total[2] * Cardinality(seen)>>)

\* C17: the sample of a bootstrap iteration is made of m pairwise distinct
\* records of the table with m < n, and the distance matrix and the labels of
\* the iteration have one row, one column and one label per sampled record.
C17_SampleOfDistinctRecordsCovered ==
    /\ pc = "boot_fit" =>
          /\ Len(idx_sorted) < n
          /\ \A a \in DOMAIN idx_sorted : idx_sorted[a] \in 1..n
          /\ \A a, b \in DOMAIN idx_sorted : a # b => idx_sorted[a] # idx_sorted[b]
          /\ DOMAIN boot_gower_dist = DOMAIN idx_sorted
          /\ \A a \in DOMAIN boot_gower_dist :
                DOMAIN boot_gower_dist[a] = DOMAIN idx_sorted
    /\ (pc = "boot_sample" /\ i >= 1) => DOMAIN boot_labels = DOMAIN idx_sorted

\* An iteration on a table of 4 records has labelled its sample of 3.
C17_Witness ==
    /\ pc = "boot_sample"
    /\ i >= 1
    /\ n = 4
    /\ Len(idx_sorted) = 3
    /\ Len(boot_labels) = 3
    /\ Len(boot_gower_dist) = 3

\* C18: in a bootstrap iteration that completes, the adjusted agreement score
\* compares the label at sample position a with the original label of the
\* record idx_sorted[a], and a pair counter changes only at a pair of sampled
\* records, the co-clustered one only when the labels at the positions of the
\* two records in the sample are equal.
C18_LabelsAlignedWithSampledRecords ==
    [][(pc = "boot_fit" /\ pc' = "boot_sample") =>
          /\ ari_scores' =
                Append(ari_scores,
                       AdjustedRandScore([a \in DOMAIN idx_sorted |->
                                             cluster[idx_sorted[a]]],
                                         boot_labels'))
          /\ \A x, y \in DOMAIN coassoc :
                /\ count_matrix'[x][y] # count_matrix[x][y] =>
                      \E a, b \in DOMAIN idx_sorted :
                          idx_sorted[a] = x /\ idx_sorted[b] = y
                /\ coassoc'[x][y] # coassoc[x][y] =>
                      \E a, b \in DOMAIN idx_sorted :
                          /\ idx_sorted[a] = x
                          /\ idx_sorted[b] = y
                          /\ boot_labels'[a] = boot_labels'[b]]_vars

\* A completed iteration whose sample holds a record at a position other than
\* its number, the record of that number having another original label.
C18_Witness ==
    /\ pc = "boot_sample"
    /\ i >= 1
    /\ \E a \in DOMAIN idx_sorted :
          idx_sorted[a] # a /\ cluster[idx_sorted[a]] # cluster[a]

\* C19: every bootstrap iteration is run with the k that the scan of step 3
\* chose.
C19_BootstrapRunsWithChosenK ==
    pc \in {"boot_sample", "boot_fit", "done"} => boot_k = rerun.best_k

\* C20: a labelling with at least 2 populated clusters, singletons among them
\* or not, gets a cohesion score and enters the candidate table: a round of
\* the scan with k <= n ends in an error only when the clusterer gave a
\* labelling with a single populated cluster.
C20_ScoreForEveryLabellingOfTwoClusters ==
    [][(pc = "scan" /\ pc' = "error" /\ k <= n) =>
          \E labels \in FitOutcomes(gower_dist, k) : NUnique(labels) < 2]_vars

\* C21: every candidate of the table for a scanned k has one label per record
\* of the table, each label in 0..k-1, and the table holds one candidate for
\* each k scanned so far and for no other k.
C21_CandidateLabelsInRange ==
    /\ DOMAIN results = KMin..(k - 1)
    /\ \A kk \in DOMAIN results :
          /\ DOMAIN results[kk].labels = 1..n
          /\ \A a \in 1..n : results[kk].labels[a] \in 0..(kk - 1)

\* The scan is over and the candidate of KMax uses its highest label.
C21_Witness ==
    /\ pc = "scanned"
    /\ DOMAIN results = KMin..KMax
    /\ \E a \in 1..n : results[KMax].labels[a] = KMax - 1

\* C22: the distance computation treats a column as categorical (simple
\* mismatch) exactly when the encoder made it as a binary or an indicator
\* column, and as continuous exactly when the encoder made it as a scaled
\* numerical column.
C22_ColumnTreatedAsEncoded ==
    feature_matrix # <<>> =>
        \A c \in DOMAIN feature_matrix.columns :
            CatMask(feature_matrix)[c] = (feature_matrix.columns[c].kind # "numerical")

\* C23: in the feature matrix every record has exactly one indicator column of
\* the categorical feature set.
C23_OneIndicatorPerRecord ==
    (feature_matrix # <<>> /\ CATEGORICAL_FEATURES(df) # <<>>) =>
        \A r \in DOMAIN feature_matrix.values :
            Cardinality({c \in DOMAIN feature_matrix.columns :
                            /\ feature_matrix.columns[c].kind = "categorical"
                            /\ feature_matrix.columns[c].name = "VisitType"
                            /\ feature_matrix.values[r][c] = 1}) = 1

\* The total assignment cost: the sum over the points of the distance to the
\* nearest medoid.
TotalCost(D, medoid_idxs) ==
    SumSeq([j \in 1..Len(D) |->
              SetMin({D[medoid_idxs[c]][j] : c \in DOMAIN medoid_idxs})])

\* Some swap of one medoid for a point that is no medoid lowers the cost.
ImprovingSwapExists(D, medoid_idxs) ==
    \E c \in DOMAIN medoid_idxs : \E h \in (1..Len(D)) \ Range(medoid_idxs) :
        TotalCost(D, [medoid_idxs EXCEPT ![c] = h]) < TotalCost(D, medoid_idxs)

\* C24: a fit makes at most MAX_ITER rounds, every round that changes a medoid
\* strictly lowers the total assignment cost, and when the fit stops before
\* MAX_ITER rounds no swap of a single medoid would lower the cost.
C24_FitStopsAtSwapOptimum ==
    [][(pc = "fit") =>
          /\ kmed'.n_iter <= MAX_ITER
          /\ kmed'.medoid_idxs # kmed.medoid_idxs =>
                TotalCost(gower_dist, kmed'.medoid_idxs)
                    < TotalCost(gower_dist, kmed.medoid_idxs)
          /\ (pc' = "fitted" /\ kmed'.n_iter < MAX_ITER) =>
                ~ImprovingSwapExists(gower_dist, kmed'.medoid_idxs)]_vars

\* C25: the candidates of the scan were fitted with the seeds seed_base + k
\* for one seed_base, so that the seed of a candidate minus its k is the same
\* for all candidates and no two candidates share a seed.
C25_ScanSeedIsBasePlusK ==
    \A k1, k2 \in DOMAIN results :
        results[k1].model.random_state - k1 = results[k2].model.random_state - k2

\* C26: after any number of bootstrap iterations both pair counters are
\* symmetric with a zero diagonal, and for every pair of records
\* 0 <= co-clustered <= seen-together <= number of iterations made.
C26_CountersSymmetricAndBounded ==
    \A x, y \in DOMAIN count_matrix :
        /\ count_matrix[x][y] = count_matrix[y][x]
        /\ coassoc[x][y] = coassoc[y][x]
        /\ count_matrix[x][x] = 0
        /\ coassoc[x][x] = 0
        /\ 0 <= coassoc[x][y]
        /\ coassoc[x][y] <= count_matrix[x][y]
        /\ count_matrix[x][y] <= i

\* After the last iteration: a pair seen in every iteration and clustered
\* together in some of them but not all, and a pair seen in fewer iterations.
C26_Witness ==
    /\ pc = "boot_sample"
    /\ i = NIter
    /\ \E x, y \in DOMAIN count_matrix :
          /\ x # y
          /\ count_matrix[x][y] = i
          /\ 0 < coassoc[x][y]
          /\ coassoc[x][y] < count_matrix[x][y]
    /\ \E x, y \in DOMAIN count_matrix :
          x # y /\ 0 < count_matrix[x][y] /\ count_matrix[x][y] < i

\* The keys of a table in every order of insertion.
KeyOrders(res) ==
    LET ks == SortedSeq(DOMAIN res)
    IN  {[a \in DOMAIN ks |-> ks[o[a]]] : o \in Orders(Len(ks))}

\* The candidates whose score no candidate exceeds.
MaxScoreKeys(res) ==
    {kk \in DOMAIN res :
        \A j \in DOMAIN res : ~RLess(res[kk].silhouette, res[j].silhouette)}

\* C27: the chosen k is the smallest of the candidates that hold the greatest
\* silhouette, and plot_silhouette_scores returns that k for every order in
\* which the candidates can have been inserted in the table.
C27_SmallestKAmongTies ==
    pc \in {"selected", "applied"} =>
        /\ best_k = SetMin(MaxScoreKeys(results))
        /\ \A keys \in KeyOrders(results) :
              BestKOfKeys(keys, results) = SetMin(MaxScoreKeys(results))

\* A k is chosen while a greater candidate holds the same score with other
\* labels.
C27_Witness ==
    /\ pc = "selected"
    /\ \E kk \in DOMAIN results :
          /\ kk > best_k
          /\ results[kk].silhouette = results[best_k].silhouette
          /\ results[kk].labels # results[best_k].labels

\* The step that writes each intermediate file and the steps that read it.
WrittenBy ==
    [f \in Files |-> CASE f = "ENCOUNTER_CLEAN_PATH" -> 1
                       [] f = "ENCOUNTER_PRESCRIBER_PATH" -> 2
                       [] f = "ENCOUNTER_CLUSTERED_PATH" -> 3]

ReadBy ==
    [f \in Files |-> CASE f = "ENCOUNTER_CLEAN_PATH" -> {2, 6}
                       [] f = "ENCOUNTER_PRESCRIBER_PATH" -> {3, 5, 6}
                       [] f = "ENCOUNTER_CLUSTERED_PATH" -> {4, 5, 6}]

\* C28: in the run of all six steps every read of an intermediate file finds
\* the file whole as this run wrote it, the write being made before by the
\* step of that file (clean by step 1, prescriber by step 2, clustered by
\* step 3) and that step having returned; the readers of each file are the
\* steps after its writer that the pipeline names for it; and a step that
\* raises is the last entry of the run, no step is started after it.
C28_DefaultRunReadsWhatEarlierStepsWrote ==
    (argv = <<>> /\ pc # "main") =>
        /\ \A p \in DOMAIN run_log :
              run_log[p].what = "read" =>
                /\ run_log[p].saw = "written"
                /\ run_log[p].step \in ReadBy[run_log[p].file]
                /\ \E q \in 1..(p - 1) :
                      /\ run_log[q].what = "write"
                      /\ run_log[q].file = run_log[p].file
                      /\ run_log[q].step = WrittenBy[run_log[p].file]
                      /\ run_log[q].step < run_log[p].step
                      /\ \E r \in (q + 1)..(p - 1) :
                            /\ run_log[r].what = "end"
                            /\ run_log[r].step = run_log[q].step
        /\ \A p \in DOMAIN run_log :
              run_log[p].what = "raise" => (p = Len(run_log) /\ pc = "error")
        /\ pc = "complete" =>
              \A f \in Files : \A s \in ReadBy[f] :
                  \E p \in DOMAIN run_log :
                      /\ run_log[p].what = "read"
                      /\ run_log[p].step = s
                      /\ run_log[p].file = f

\* The run of all six steps completes: step 6 has read its files and every
\* read of the run found the file as this run wrote it.
C28_Witness ==
    /\ argv = <<>>
    /\ pc = "complete"
    /\ \A p \in DOMAIN run_log : run_log[p].what = "read" => run_log[p].saw = "written"
    /\ \E p \in DOMAIN run_log : run_log[p].what = "read" /\ run_log[p].step = 6

=============================================================================
